---- MODULE Spec2Model ----
(***************************************************************************)
(* Model of dragino/GPShandler.py: class GPS.                              *)
(*                                                                         *)
(* Two execution contexts share one GPS object: the caller's context       *)
(* (constructor, accessors, stop) and the updater thread (_updater, which  *)
(* calls update_gps in a loop).  A non-threaded object has no updater      *)
(* thread; its caller runs update_gps itself.  Every step below is one     *)
(* access to the shared object, so the interleavings of the model are the  *)
(* interleavings the interpreter can produce between two statements (or    *)
(* two attribute loads of one statement).                                  *)
(*                                                                         *)
(* Numbers are abstract integers: positions, dilution and times are small  *)
(* integers, a datetime is its number of seconds since the epoch.          *)
(***************************************************************************)
EXTENDS Integers, Sequences, FiniteSets

\* ------------------------------------------------------------------ bounds
\* The wall clock time() runs from 0 to MaxTime seconds.
MaxTime == 1
\* The daemon delivers at most MaxPolls lines; afterwards next() has no data.
MaxPolls == 2

\* ------------------------------------------------------------ Python values
\* Python's None, for the numeric attributes (every number of the model is >= 0).
None == -1
\* No exception raised / caught.
NoExc == "none"
\* gpsd_socket.next() returned None.
NoLine == "<no data>"
\* An unbound local dictionary.
NoDict == [unbound |-> TRUE]
\* getSentence's "return None".
NoSentence == [absent |-> TRUE]
\* The caller holds no return value (a call is in progress or none was made).
NoRet == [op |-> "none"]
\* The empty dictionary {}.
EmptyDict == [k \in {} |-> NoDict]

Has(d, k) == k \in DOMAIN d
\* d[k] = v on a dictionary.
DictSet(d, k, v) == [x \in (DOMAIN d) \cup {k} |-> IF x = k THEN v ELSE d[x]]

\* ------------------------------------------------------- the daemon's lines
\* The lines gpsd_socket.next() can return.  Each stands for the JSON text
\* that json_loads decodes it to.
Lines ==
  { "tpvA",       \* {"class":"TPV","mode":3,"lat":11,"lon":12,"alt":13,"time":100}
    "tpvB",       \* {"class":"TPV","mode":2,"lat":21,"lon":22,"alt":23,"time":200}
    "tpvMode1",   \* {"class":"TPV","mode":1,"lat":31,"lon":32,"alt":33,"time":300}
    "tpvMode0",   \* {"class":"TPV","mode":0}
    "tpvNoLon",   \* {"class":"TPV","mode":3,"lat":41,"alt":43,"time":400}
    "tpvNoMode",  \* {"class":"TPV","lat":51,"lon":52,"alt":53,"time":500}
    "skyH",       \* {"class":"SKY","hdop":5}
    "skyNoHdop",  \* {"class":"SKY"}
    "gst",        \* {"class":"GST"}
    "noClass",    \* {"mode":3,"lat":61,"lon":62,"alt":63,"time":600}
    "garbage" }   \* not JSON

\* json.loads(line): the decoded dictionary, or the exception it raises.
json_loads(line) ==
  CASE line = "tpvA" ->
         [exc |-> NoExc,
          val |-> [class |-> "TPV", mode |-> 3, lat |-> 11, lon |-> 12, alt |-> 13, time |-> 100]]
    [] line = "tpvB" ->
         [exc |-> NoExc,
          val |-> [class |-> "TPV", mode |-> 2, lat |-> 21, lon |-> 22, alt |-> 23, time |-> 200]]
    [] line = "tpvMode1" ->
         [exc |-> NoExc,
          val |-> [class |-> "TPV", mode |-> 1, lat |-> 31, lon |-> 32, alt |-> 33, time |-> 300]]
    [] line = "tpvMode0" ->
         [exc |-> NoExc, val |-> [class |-> "TPV", mode |-> 0]]
    [] line = "tpvNoLon" ->
         [exc |-> NoExc,
          val |-> [class |-> "TPV", mode |-> 3, lat |-> 41, alt |-> 43, time |-> 400]]
    [] line = "tpvNoMode" ->
         [exc |-> NoExc,
          val |-> [class |-> "TPV", lat |-> 51, lon |-> 52, alt |-> 53, time |-> 500]]
    [] line = "skyH" ->
         [exc |-> NoExc, val |-> [class |-> "SKY", hdop |-> 5]]
    [] line = "skyNoHdop" ->
         [exc |-> NoExc, val |-> [class |-> "SKY"]]
    [] line = "gst" ->
         [exc |-> NoExc, val |-> [class |-> "GST"]]
    [] line = "noClass" ->
         [exc |-> NoExc,
          val |-> [mode |-> 3, lat |-> 61, lon |-> 62, alt |-> 63, time |-> 600]]
    [] OTHER ->
         [exc |-> "JSONDecodeError", val |-> NoDict]

\* ---------------------------------------------------------------- the state
VARIABLES
  isThreaded,      \* self.isThreaded
  gpsd,            \* outcome of the gpsd setup: "ok", "noattr", "noconn"
  running,         \* self.running
  stopped,         \* self.stopped
  cacheExists,     \* the attribute self.gps_cache exists
  gps_cache,       \* self.gps_cache: class -> sentence
  lat, lon, alt, hdop, timestamp, lastGpsReading,
  now,             \* what time() returns
  polls,           \* lines delivered by the daemon so far
  mpc,             \* position of the caller's context
  tpc,             \* position of the updater thread
  upc,             \* position inside update_gps
  new_data,        \* update_gps local
  data,            \* update_gps local
  caught,          \* exception caught (and logged) by update_gps
  escaped,         \* exception propagating out of update_gps
  frame,           \* values loaded so far by the accessor in progress
  ret              \* outcome of the caller's last completed call

snapshot == <<lat, lon, alt, hdop, timestamp, lastGpsReading>>
cache == <<cacheExists, gps_cache>>
vars == <<isThreaded, gpsd, running, stopped, cacheExists, gps_cache,
          lat, lon, alt, hdop, timestamp, lastGpsReading, now, polls,
          mpc, tpc, upc, new_data, data, caught, escaped, frame, ret>>

\* Mutant of Init: gps_cache is also created before the thread is started (and
\* created again, empty, by the constructor's last statement).
Init_CacheEarly ==
  /\ isThreaded \in BOOLEAN
  /\ gpsd = "ok"
  /\ running = FALSE
  /\ stopped = TRUE
  /\ cacheExists = TRUE
  /\ gps_cache = EmptyDict
  /\ lat = None /\ lon = None /\ alt = None /\ hdop = None
  /\ timestamp = None /\ lastGpsReading = None
  /\ now = 0
  /\ polls = 0
  /\ mpc = "ctor_gpsd"
  /\ tpc = "unstarted"
  /\ upc = "idle"
  /\ new_data = NoLine
  /\ data = NoDict
  /\ caught = NoExc
  /\ escaped = NoExc
  /\ frame = <<>>
  /\ ret = NoRet

\* The state when __init__ reaches the gpsd setup; threaded is the caller's choice.
Init ==
  /\ isThreaded \in BOOLEAN
  /\ gpsd = "ok"
  /\ running = FALSE
  /\ stopped = TRUE
  /\ cacheExists = FALSE
  /\ gps_cache = EmptyDict
  /\ lat = None /\ lon = None /\ alt = None /\ hdop = None
  /\ timestamp = None /\ lastGpsReading = None
  /\ now = 0
  /\ polls = 0
  /\ mpc = "ctor_gpsd"
  /\ tpc = "unstarted"
  /\ upc = "idle"
  /\ new_data = NoLine
  /\ data = NoDict
  /\ caught = NoExc
  /\ escaped = NoExc
  /\ frame = <<>>
  /\ ret = NoRet

\* ------------------------------------------------------------ the wall clock
Tick ==
  /\ now < MaxTime
  /\ now' = now + 1
  /\ UNCHANGED <<isThreaded, gpsd, running, stopped, cacheExists, gps_cache,
                 lat, lon, alt, hdop, timestamp, lastGpsReading, polls,
                 mpc, tpc, upc, new_data, data, caught, escaped, frame, ret>>

\* ------------------------------------------------------------- constructor
\* try: GPSDSocket(), DataStream(), connect(), watch()  except Exception: log.
\* "noattr": GPSDSocket() raised, self.gpsd_socket was never assigned;
\* "noconn": connect() or watch() raised, the socket object is not connected.
CtorGpsd ==
  /\ mpc = "ctor_gpsd"
  /\ \E g \in {"ok", "noattr", "noconn"} : gpsd' = g
  /\ mpc' = "ctor_thread"
  /\ UNCHANGED <<isThreaded, running, stopped, cacheExists, gps_cache,
                 lat, lon, alt, hdop, timestamp, lastGpsReading, now, polls,
                 tpc, upc, new_data, data, caught, escaped, frame, ret>>

\* if self.isThreaded: running=False; stopped=True; Thread(...).start()
CtorThread ==
  /\ mpc = "ctor_thread"
  /\ IF isThreaded
       THEN /\ running' = FALSE
            /\ stopped' = TRUE
            /\ tpc' = "t_run"
       ELSE UNCHANGED <<running, stopped, tpc>>
  /\ mpc' = "ctor_cache"
  /\ UNCHANGED <<isThreaded, gpsd, cacheExists, gps_cache,
                 lat, lon, alt, hdop, timestamp, lastGpsReading, now, polls,
                 upc, new_data, data, caught, escaped, frame, ret>>

\* self.gps_cache={}
CtorCache ==
  /\ mpc = "ctor_cache"
  /\ cacheExists' = TRUE
  /\ gps_cache' = EmptyDict
  /\ mpc' = "ready"
  /\ UNCHANGED <<isThreaded, gpsd, running, stopped,
                 lat, lon, alt, hdop, timestamp, lastGpsReading, now, polls,
                 tpc, upc, new_data, data, caught, escaped, frame, ret>>

\* ------------------------------------------------------------- update_gps
\* Mutant of OuterHandler: the handler names KeyError only.
OuterHandler_KeyErrorOnly == "KeyError"

\* The class named by the handler at the end of update_gps: "except Exception".
OuterHandler == "Exception"
\* The class named by the handler around the TPV assignments: "except KeyError".
InnerHandler == "KeyError"
\* isinstance(exc, handler) for the exceptions of this module, which all derive
\* from Exception.
Catches(handler, exc) == handler = "Exception" \/ handler = exc

\* An exception raised inside the outer try: caught and logged, then the
\* function returns; otherwise it propagates to the caller.
OuterRaise(exc) ==
  IF Catches(OuterHandler, exc)
    THEN /\ upc' = "return"
         /\ caught' = exc
         /\ UNCHANGED escaped
    ELSE /\ upc' = "return"
         /\ escaped' = exc
         /\ UNCHANGED caught

\* An exception raised inside the inner try: caught and logged, then execution
\* continues at the SKY test; otherwise it reaches the outer handler.
InnerRaise(exc) ==
  IF Catches(InnerHandler, exc)
    THEN /\ upc' = "sky"
         /\ caught' = exc
         /\ UNCHANGED escaped
    ELSE OuterRaise(exc)

\* Mutant of NoFix: only mode 0 counts as "no fix".
NoFix_OnlyModeZero(d) == d.mode = 0

\* data["mode"]==0 or data["mode"]==1
NoFix(d) == d.mode = 0 \/ d.mode = 1

\* new_data = self.gpsd_socket.next(); if new_data is not None: data = json.loads(new_data)
U_Next ==
  /\ upc = "next"
  /\ IF gpsd = "noattr"
       THEN /\ OuterRaise("AttributeError")
            /\ UNCHANGED <<new_data, data, polls>>
       ELSE IF gpsd = "noconn"
       THEN /\ OuterRaise("OSError")
            /\ UNCHANGED <<new_data, data, polls>>
       ELSE \E line \in (IF polls < MaxPolls THEN Lines ELSE {}) \cup {NoLine} :
              /\ new_data' = line
              /\ IF line = NoLine
                   THEN /\ upc' = "return"
                        /\ UNCHANGED <<data, polls, caught, escaped>>
                   ELSE /\ polls' = polls + 1
                        /\ IF json_loads(line).exc # NoExc
                             THEN /\ OuterRaise(json_loads(line).exc)
                                  /\ UNCHANGED data
                             ELSE /\ data' = json_loads(line).val
                                  /\ upc' = "cache"
                                  /\ UNCHANGED <<caught, escaped>>
  /\ UNCHANGED <<isThreaded, gpsd, running, stopped, cacheExists, gps_cache,
                 lat, lon, alt, hdop, timestamp, lastGpsReading, now,
                 mpc, tpc, frame, ret>>

\* Mutant of CacheStore: the cache is replaced by a dictionary holding only the
\* new sentence.
CacheStore_OnlyNewKey(c, d) == [x \in {d.class} |-> d]

\* self.gps_cache[data["class"]]=data, on the cache c.
CacheStore(c, d) == DictSet(c, d.class, d)

\* Where update_gps goes after the cache write: the TPV test and the mode test.
AfterCache(d) ==
  IF d.class = "TPV"
    THEN IF ~Has(d, "mode")
           THEN OuterRaise("KeyError")
           ELSE IF NoFix(d)
                  THEN upc' = "return" /\ UNCHANGED <<caught, escaped>>
                  ELSE upc' = "w_lat" /\ UNCHANGED <<caught, escaped>>
    ELSE upc' = "sky" /\ UNCHANGED <<caught, escaped>>

\* data["lastReadingTime"]=time(); self.gps_cache[data["class"]]=data;
\* if data["class"] == "TPV": if mode is 0 or 1: return
U_Cache ==
  /\ upc = "cache"
  /\ data' = DictSet(data, "lastReadingTime", now)
  /\ IF ~cacheExists
       THEN /\ OuterRaise("AttributeError")
            /\ UNCHANGED gps_cache
       ELSE IF ~Has(data, "class")
       THEN /\ OuterRaise("KeyError")
            /\ UNCHANGED gps_cache
       ELSE /\ gps_cache' = CacheStore(gps_cache, data')
            /\ AfterCache(data)
  /\ UNCHANGED <<isThreaded, gpsd, running, stopped, cacheExists,
                 lat, lon, alt, hdop, timestamp, lastGpsReading, now, polls,
                 mpc, tpc, new_data, frame, ret>>

\* self.lat = data["lat"]
U_SetLat ==
  /\ upc = "w_lat"
  /\ IF Has(data, "lat")
       THEN /\ lat' = data.lat
            /\ upc' = "w_lon"
            /\ UNCHANGED <<caught, escaped>>
       ELSE /\ InnerRaise("KeyError")
            /\ UNCHANGED lat
  /\ UNCHANGED <<isThreaded, gpsd, running, stopped, cacheExists, gps_cache,
                 lon, alt, hdop, timestamp, lastGpsReading, now, polls,
                 mpc, tpc, new_data, data, frame, ret>>

\* self.lon = data["lon"]
U_SetLon ==
  /\ upc = "w_lon"
  /\ IF Has(data, "lon")
       THEN /\ lon' = data.lon
            /\ upc' = "w_alt"
            /\ UNCHANGED <<caught, escaped>>
       ELSE /\ InnerRaise("KeyError")
            /\ UNCHANGED lon
  /\ UNCHANGED <<isThreaded, gpsd, running, stopped, cacheExists, gps_cache,
                 lat, alt, hdop, timestamp, lastGpsReading, now, polls,
                 mpc, tpc, new_data, data, frame, ret>>

\* self.alt = data["alt"]
U_SetAlt ==
  /\ upc = "w_alt"
  /\ IF Has(data, "alt")
       THEN /\ alt' = data.alt
            /\ upc' = "w_time"
            /\ UNCHANGED <<caught, escaped>>
       ELSE /\ InnerRaise("KeyError")
            /\ UNCHANGED alt
  /\ UNCHANGED <<isThreaded, gpsd, running, stopped, cacheExists, gps_cache,
                 lat, lon, hdop, timestamp, lastGpsReading, now, polls,
                 mpc, tpc, new_data, data, frame, ret>>

\* self.timestamp = data["time"]
U_SetTime ==
  /\ upc = "w_time"
  /\ IF Has(data, "time")
       THEN /\ timestamp' = data.time
            /\ upc' = "w_last"
            /\ UNCHANGED <<caught, escaped>>
       ELSE /\ InnerRaise("KeyError")
            /\ UNCHANGED timestamp
  /\ UNCHANGED <<isThreaded, gpsd, running, stopped, cacheExists, gps_cache,
                 lat, lon, alt, hdop, lastGpsReading, now, polls,
                 mpc, tpc, new_data, data, frame, ret>>

\* Mutant of U_SetLast: the arrival time of the fix is not recorded.
U_SetLast_KeepsArrival ==
  /\ upc = "w_last"
  /\ upc' = "sky"
  /\ UNCHANGED <<isThreaded, gpsd, running, stopped, cacheExists, gps_cache,
                 lat, lon, alt, hdop, timestamp, lastGpsReading, now, polls,
                 mpc, tpc, new_data, data, caught, escaped, frame, ret>>

\* self.lastGpsReading = time()
U_SetLast ==
  /\ upc = "w_last"
  /\ lastGpsReading' = now
  /\ upc' = "sky"
  /\ UNCHANGED <<isThreaded, gpsd, running, stopped, cacheExists, gps_cache,
                 lat, lon, alt, hdop, timestamp, now, polls,
                 mpc, tpc, new_data, data, caught, escaped, frame, ret>>

\* if data["class"] == "SKY": self.hdop = data["hdop"]  else: pass
U_Sky ==
  /\ upc = "sky"
  /\ IF data.class = "SKY"
       THEN IF Has(data, "hdop")
              THEN /\ hdop' = data.hdop
                   /\ upc' = "return"
                   /\ UNCHANGED <<caught, escaped>>
              ELSE /\ OuterRaise("KeyError")
                   /\ UNCHANGED hdop
       ELSE /\ upc' = "return"
            /\ UNCHANGED <<hdop, caught, escaped>>
  /\ UNCHANGED <<isThreaded, gpsd, running, stopped, cacheExists, gps_cache,
                 lat, lon, alt, timestamp, lastGpsReading, now, polls,
                 mpc, tpc, new_data, data, frame, ret>>

\* update_gps returns (or its exception reaches the caller): the updater thread
\* goes on to the delay, or dies; the caller of a non-threaded object gets the
\* outcome.
U_Return ==
  /\ upc = "return"
  /\ upc' = "idle"
  /\ new_data' = NoLine
  /\ data' = NoDict
  /\ caught' = NoExc
  /\ escaped' = NoExc
  /\ IF tpc = "t_update"
       THEN /\ tpc' = IF escaped = NoExc THEN "t_delay" ELSE "t_crashed"
            /\ UNCHANGED <<mpc, ret>>
       ELSE /\ mpc' = "ready"
            /\ ret' = [op |-> "update_gps", exc |-> escaped]
            /\ UNCHANGED tpc
  /\ UNCHANGED <<isThreaded, gpsd, running, stopped, cacheExists, gps_cache,
                 lat, lon, alt, hdop, timestamp, lastGpsReading, now, polls,
                 frame>>

UpdateGps ==
  \/ U_Next \/ U_Cache \/ U_SetLat \/ U_SetLon \/ U_SetAlt \/ U_SetTime
  \/ U_SetLast \/ U_Sky \/ U_Return

\* ---------------------------------------------------------------- _updater
\* self.running=True
T_SetRunning ==
  /\ tpc = "t_run"
  /\ running' = TRUE
  /\ tpc' = "t_run2"
  /\ UNCHANGED <<isThreaded, gpsd, stopped, cacheExists, gps_cache,
                 lat, lon, alt, hdop, timestamp, lastGpsReading, now, polls,
                 mpc, upc, new_data, data, caught, escaped, frame, ret>>

\* self.stopped=False
T_SetStopped ==
  /\ tpc = "t_run2"
  /\ stopped' = FALSE
  /\ tpc' = "t_loop"
  /\ UNCHANGED <<isThreaded, gpsd, running, cacheExists, gps_cache,
                 lat, lon, alt, hdop, timestamp, lastGpsReading, now, polls,
                 mpc, upc, new_data, data, caught, escaped, frame, ret>>

\* Mutant of T_Loop: the loop does not test running ("while True").
T_Loop_IgnoresRunning ==
  /\ tpc = "t_loop"
  /\ tpc' = "t_update"
  /\ upc' = "next"
  /\ UNCHANGED <<isThreaded, gpsd, running, stopped, cacheExists, gps_cache,
                 lat, lon, alt, hdop, timestamp, lastGpsReading, now, polls,
                 mpc, new_data, data, caught, escaped, frame, ret>>

\* while self.running: self.update_gps()
T_Loop ==
  /\ tpc = "t_loop"
  /\ IF running
       THEN tpc' = "t_update" /\ upc' = "next"
       ELSE tpc' = "t_exit" /\ UNCHANGED upc
  /\ UNCHANGED <<isThreaded, gpsd, running, stopped, cacheExists, gps_cache,
                 lat, lon, alt, hdop, timestamp, lastGpsReading, now, polls,
                 mpc, new_data, data, caught, escaped, frame, ret>>

\* Mutant of T_Delay: the loop body runs once ("if" for "while").
T_Delay_LeavesLoop ==
  /\ tpc = "t_delay"
  /\ tpc' = "t_exit"
  /\ UNCHANGED <<isThreaded, gpsd, running, stopped, cacheExists, gps_cache,
                 lat, lon, alt, hdop, timestamp, lastGpsReading, now, polls,
                 mpc, upc, new_data, data, caught, escaped, frame, ret>>

\* self.delay(self.threadLoopDelay): returns once the interval has passed.
T_Delay ==
  /\ tpc = "t_delay"
  /\ tpc' = "t_loop"
  /\ UNCHANGED <<isThreaded, gpsd, running, stopped, cacheExists, gps_cache,
                 lat, lon, alt, hdop, timestamp, lastGpsReading, now, polls,
                 mpc, upc, new_data, data, caught, escaped, frame, ret>>

\* self.stopped=True
T_Exit ==
  /\ tpc = "t_exit"
  /\ stopped' = TRUE
  /\ tpc' = "t_done"
  /\ UNCHANGED <<isThreaded, gpsd, running, cacheExists, gps_cache,
                 lat, lon, alt, hdop, timestamp, lastGpsReading, now, polls,
                 mpc, upc, new_data, data, caught, escaped, frame, ret>>

Updater == T_SetRunning \/ T_SetStopped \/ T_Loop \/ T_Delay \/ T_Exit

\* ----------------------------------------------------------------- get_gps
\* The attributes get_gps loads, in the order of its return statement.
GpsFields == <<lat, lon, alt, hdop>>

CallGetGps ==
  /\ mpc = "ready"
  /\ mpc' = "get_gps"
  /\ frame' = <<>>
  /\ ret' = NoRet
  /\ UNCHANGED <<isThreaded, gpsd, running, stopped, cacheExists, gps_cache,
                 lat, lon, alt, hdop, timestamp, lastGpsReading, now, polls,
                 tpc, upc, new_data, data, caught, escaped>>

\* return self.lat, self.lon, self.alt, self.hdop: one attribute load per step,
\* the tuple is returned after the fourth.
GetGpsLoad ==
  /\ mpc = "get_gps"
  /\ IF Len(frame) = 3
       THEN /\ ret' = [op |-> "get_gps", exc |-> NoExc,
                       val |-> Append(frame, GpsFields[Len(frame) + 1])]
            /\ frame' = <<>>
            /\ mpc' = "ready"
       ELSE /\ frame' = Append(frame, GpsFields[Len(frame) + 1])
            /\ UNCHANGED <<mpc, ret>>
  /\ UNCHANGED <<isThreaded, gpsd, running, stopped, cacheExists, gps_cache,
                 lat, lon, alt, hdop, timestamp, lastGpsReading, now, polls,
                 tpc, upc, new_data, data, caught, escaped>>

\* ------------------------------------------------- get_corrected_timestamp
\* Seconds in a day: timedelta's first positional parameter is "days".
SecondsPerDay == 86400

\* Mutant of fromtimestamp: None is taken as the epoch instead of raising.
fromtimestamp_NoneIsEpoch(ts) ==
  [exc |-> NoExc, val |-> IF ts = None THEN 0 ELSE ts]

\* datetime.fromtimestamp(ts), as seconds since the epoch; None is a TypeError.
fromtimestamp(ts) ==
  IF ts = None THEN [exc |-> "TypeError", val |-> None]
               ELSE [exc |-> NoExc, val |-> ts]

\* timedelta(x), in seconds: x is taken as a number of days.
timedelta(x) == x * SecondsPerDay

CallGetCorrectedTimestamp ==
  /\ mpc = "ready"
  /\ mpc' = "gct_ts"
  /\ frame' = <<>>
  /\ ret' = NoRet
  /\ UNCHANGED <<isThreaded, gpsd, running, stopped, cacheExists, gps_cache,
                 lat, lon, alt, hdop, timestamp, lastGpsReading, now, polls,
                 tpc, upc, new_data, data, caught, escaped>>

\* datetime.fromtimestamp(self.timestamp)
Gct_Timestamp ==
  /\ mpc = "gct_ts"
  /\ IF fromtimestamp(timestamp).exc # NoExc
       THEN /\ ret' = [op |-> "get_corrected_timestamp",
                       exc |-> fromtimestamp(timestamp).exc,
                       ts |-> timestamp, at |-> None, last |-> None, val |-> None]
            /\ mpc' = "ready"
            /\ UNCHANGED frame
       ELSE /\ frame' = <<timestamp>>
            /\ mpc' = "gct_now"
            /\ UNCHANGED ret
  /\ UNCHANGED <<isThreaded, gpsd, running, stopped, cacheExists, gps_cache,
                 lat, lon, alt, hdop, timestamp, lastGpsReading, now, polls,
                 tpc, upc, new_data, data, caught, escaped>>

\* Mutant of Gct_Now: the accessor re-anchors the fix at the time of the call.
Gct_Now_Reanchors ==
  /\ mpc = "gct_now"
  /\ frame' = Append(frame, now)
  /\ lastGpsReading' = now
  /\ mpc' = "gct_last"
  /\ UNCHANGED <<isThreaded, gpsd, running, stopped, cacheExists, gps_cache,
                 lat, lon, alt, hdop, timestamp, now, polls,
                 tpc, upc, new_data, data, caught, escaped, ret>>

\* time()
Gct_Now ==
  /\ mpc = "gct_now"
  /\ frame' = Append(frame, now)
  /\ mpc' = "gct_last"
  /\ UNCHANGED <<isThreaded, gpsd, running, stopped, cacheExists, gps_cache,
                 lat, lon, alt, hdop, timestamp, lastGpsReading, now, polls,
                 tpc, upc, new_data, data, caught, escaped, ret>>

\* ... + timedelta(time() - self.lastGpsReading); the record keeps the three
\* values the call read (self.timestamp, time(), self.lastGpsReading) next to
\* its result.
Gct_Last ==
  /\ mpc = "gct_last"
  /\ ret' = IF lastGpsReading = None
              THEN [op |-> "get_corrected_timestamp", exc |-> "TypeError",
                    ts |-> frame[1], at |-> frame[2], last |-> None, val |-> None]
              ELSE [op |-> "get_corrected_timestamp", exc |-> NoExc,
                    ts |-> frame[1], at |-> frame[2], last |-> lastGpsReading,
                    val |-> fromtimestamp(frame[1]).val
                              + timedelta(frame[2] - lastGpsReading)]
  /\ frame' = <<>>
  /\ mpc' = "ready"
  /\ UNCHANGED <<isThreaded, gpsd, running, stopped, cacheExists, gps_cache,
                 lat, lon, alt, hdop, timestamp, lastGpsReading, now, polls,
                 tpc, upc, new_data, data, caught, escaped>>

\* ------------------------------------------------ getSentence, getSentences
\* The arguments getSentence is called with.
Spellings == {"TPV", "tpv", "SKY"}

\* The methods of str the module could call on a class name.
StrMethods == {"upper", "lower"}
StrUpper(s) == CASE s = "tpv" -> "TPV" [] s = "sky" -> "SKY" [] OTHER -> s
StrLower(s) == CASE s = "TPV" -> "tpv" [] s = "SKY" -> "sky" [] OTHER -> s
\* s.method(): str has no attribute of any other name.
StrCall(s, method) ==
  IF method \notin StrMethods
    THEN [exc |-> "AttributeError", val |-> s]
    ELSE [exc |-> NoExc, val |-> IF method = "upper" THEN StrUpper(s) ELSE StrLower(s)]

\* self.<name>, for the names the accessors use for the cache.
CacheAttr(name) ==
  IF name = "gps_cache" /\ cacheExists
    THEN [exc |-> NoExc, val |-> gps_cache]
    ELSE [exc |-> "AttributeError", val |-> EmptyDict]

\* getSentence(which): which=which.toupper(); the lookup in self.gps_cache.
getSentence(which) ==
  LET up == StrCall(which, "toupper")
      c  == CacheAttr("gps_cache")
  IN  IF up.exc # NoExc
        THEN [op |-> "getSentence", arg |-> which, exc |-> up.exc, val |-> NoSentence]
      ELSE IF c.exc # NoExc
        THEN [op |-> "getSentence", arg |-> which, exc |-> c.exc, val |-> NoSentence]
      ELSE IF up.val \in DOMAIN c.val
        THEN [op |-> "getSentence", arg |-> which, exc |-> NoExc, val |-> c.val[up.val]]
        ELSE [op |-> "getSentence", arg |-> which, exc |-> NoExc, val |-> NoSentence]

\* getSentences(): return self.gpc_cache.keys()
getSentences ==
  LET c == CacheAttr("gpc_cache")
  IN  IF c.exc # NoExc
        THEN [op |-> "getSentences", exc |-> c.exc, val |-> {}]
        ELSE [op |-> "getSentences", exc |-> NoExc, val |-> DOMAIN c.val]

CallGetSentence ==
  /\ mpc = "ready"
  /\ \E w \in Spellings : frame' = <<w>>
  /\ mpc' = "getSentence"
  /\ ret' = NoRet
  /\ UNCHANGED <<isThreaded, gpsd, running, stopped, cacheExists, gps_cache,
                 lat, lon, alt, hdop, timestamp, lastGpsReading, now, polls,
                 tpc, upc, new_data, data, caught, escaped>>

GetSentence ==
  /\ mpc = "getSentence"
  /\ ret' = getSentence(frame[1])
  /\ frame' = <<>>
  /\ mpc' = "ready"
  /\ UNCHANGED <<isThreaded, gpsd, running, stopped, cacheExists, gps_cache,
                 lat, lon, alt, hdop, timestamp, lastGpsReading, now, polls,
                 tpc, upc, new_data, data, caught, escaped>>

CallGetSentences ==
  /\ mpc = "ready"
  /\ mpc' = "getSentences"
  /\ frame' = <<>>
  /\ ret' = NoRet
  /\ UNCHANGED <<isThreaded, gpsd, running, stopped, cacheExists, gps_cache,
                 lat, lon, alt, hdop, timestamp, lastGpsReading, now, polls,
                 tpc, upc, new_data, data, caught, escaped>>

GetSentences ==
  /\ mpc = "getSentences"
  /\ ret' = getSentences
  /\ mpc' = "ready"
  /\ UNCHANGED <<isThreaded, gpsd, running, stopped, cacheExists, gps_cache,
                 lat, lon, alt, hdop, timestamp, lastGpsReading, now, polls,
                 tpc, upc, new_data, data, caught, escaped, frame>>

\* ------------------------------------------------------------ stop, __del__
CallStop ==
  /\ mpc = "ready"
  /\ mpc' = "stop_set"
  /\ frame' = <<>>
  /\ ret' = NoRet
  /\ UNCHANGED <<isThreaded, gpsd, running, stopped, cacheExists, gps_cache,
                 lat, lon, alt, hdop, timestamp, lastGpsReading, now, polls,
                 tpc, upc, new_data, data, caught, escaped>>

\* if self.isThreaded: self.running=False   (otherwise __del__ returns)
StopSet ==
  /\ mpc = "stop_set"
  /\ IF isThreaded
       THEN /\ running' = FALSE
            /\ mpc' = "stop_wait"
            /\ UNCHANGED ret
       ELSE /\ mpc' = "ready"
            /\ ret' = [op |-> "stop", exc |-> NoExc]
            /\ UNCHANGED running
  /\ UNCHANGED <<isThreaded, gpsd, stopped, cacheExists, gps_cache,
                 lat, lon, alt, hdop, timestamp, lastGpsReading, now, polls,
                 tpc, upc, new_data, data, caught, escaped, frame>>

\* while not self.stopped: pass      (the loop is left once stopped is seen true;
\* an iteration that sees it false changes nothing)
StopWait ==
  /\ mpc = "stop_wait"
  /\ stopped
  /\ mpc' = "ready"
  /\ ret' = [op |-> "stop", exc |-> NoExc]
  /\ UNCHANGED <<isThreaded, gpsd, running, stopped, cacheExists, gps_cache,
                 lat, lon, alt, hdop, timestamp, lastGpsReading, now, polls,
                 tpc, upc, new_data, data, caught, escaped, frame>>

\* The caller of a non-threaded object polls by calling update_gps() itself.
CallUpdateGps ==
  /\ mpc = "ready"
  /\ ~isThreaded
  /\ mpc' = "update_gps"
  /\ upc' = "next"
  /\ ret' = NoRet
  /\ UNCHANGED <<isThreaded, gpsd, running, stopped, cacheExists, gps_cache,
                 lat, lon, alt, hdop, timestamp, lastGpsReading, now, polls,
                 tpc, new_data, data, caught, escaped, frame>>

\* ------------------------------------------------------- the specification
Constructor == CtorGpsd \/ CtorThread \/ CtorCache
Accessors ==
  \/ CallGetGps \/ GetGpsLoad
  \/ CallGetCorrectedTimestamp \/ Gct_Timestamp \/ Gct_Now \/ Gct_Last
  \/ CallGetSentence \/ GetSentence
  \/ CallGetSentences \/ GetSentences
Stop == CallStop \/ StopSet \/ StopWait

Next ==
  \/ Tick
  \/ Constructor
  \/ Accessors
  \/ Stop
  \/ CallUpdateGps
  \/ UpdateGps
  \/ Updater

Spec == Init /\ [][Next]_vars

\* The updater thread is scheduled, update_gps makes progress (each daemon read
\* returns), and the caller inside stop() keeps running.
FairSpec ==
  /\ Spec
  /\ WF_vars(Updater)
  /\ WF_vars(UpdateGps)
  /\ WF_vars(StopSet \/ StopWait)

TypeOK ==
  /\ isThreaded \in BOOLEAN
  /\ running \in BOOLEAN /\ stopped \in BOOLEAN
  /\ now \in 0..MaxTime
  /\ polls \in 0..MaxPolls
  /\ escaped = NoExc

\* ================================================================ claims
\* The decoded form of a line that json.loads accepts.
Decoded(line) == json_loads(line).val
IsJson(line) == line \in Lines /\ json_loads(line).exc = NoExc
IsTPV(line) == IsJson(line) /\ Has(Decoded(line), "class") /\ Decoded(line).class = "TPV"
IsSKY(line) == IsJson(line) /\ Has(Decoded(line), "class") /\ Decoded(line).class = "SKY"
FixFields == {"lat", "lon", "alt", "time"}
\* A TPV sentence with mode 2 or 3.
HasFixMode(line) ==
  IsTPV(line) /\ Has(Decoded(line), "mode") /\ Decoded(line).mode \in {2, 3}
\* A TPV sentence with mode 2 or 3 carrying lat, lon, alt and time.
ValidFix(line) == HasFixMode(line) /\ FixFields \subseteq DOMAIN Decoded(line)
\* A TPV sentence with mode 0 or 1.
NoFixLine(line) ==
  IsTPV(line) /\ Has(Decoded(line), "mode") /\ Decoded(line).mode \in {0, 1}
\* A line that is malformed or lacks an expected field.
Malformed(line) ==
  /\ line \in Lines
  /\ \/ ~IsJson(line)
     \/ ~Has(Decoded(line), "class")
     \/ IsTPV(line) /\ ~Has(Decoded(line), "mode")
     \/ HasFixMode(line) /\ ~(FixFields \subseteq DOMAIN Decoded(line))
     \/ IsSKY(line) /\ ~Has(Decoded(line), "hdop")

\* An update_gps call is in progress on new_data.
Polling == upc # "idle" /\ new_data # NoLine
\* The step is the last one of an update_gps call.
PollEnds == upc = "return" /\ upc' = "idle"

\* C1: after a TPV sentence with mode 2 or 3 carrying lat, lon, alt and time has
\* been processed by update_gps, lat, lon and alt (what get_gps returns) are
\* those of that sentence, and hdop is what it was before the sentence was
\* processed.
C1_FixIsPublished ==
  [][ (Polling /\ ValidFix(new_data)) =>
        /\ hdop' = hdop
        /\ PollEnds => /\ lat = Decoded(new_data).lat
                       /\ lon = Decoded(new_data).lon
                       /\ alt = Decoded(new_data).alt ]_vars

\* C2: while update_gps processes a TPV sentence whose mode is 0 or 1, no step
\* changes lat, lon, alt, hdop, timestamp or lastGpsReading, and no exception
\* leaves update_gps.
C2_NoFixLeavesSnapshot ==
  [][ ((Polling /\ NoFixLine(new_data)) \/ NoFixLine(new_data')) =>
        /\ snapshot' = snapshot
        /\ escaped' = NoExc
        /\ (PollEnds /\ mpc = "update_gps") => ret'.exc = NoExc
        /\ (PollEnds /\ tpc = "t_update") => tpc' = "t_delay" ]_vars

\* C2 witness: update_gps is returning from a mode-1 TPV sentence that carries
\* position fields, while the snapshot holds an earlier fix.
C2_Witness ==
  /\ upc = "return"
  /\ new_data = "tpvMode1"
  /\ "TPV" \in DOMAIN gps_cache
  /\ gps_cache["TPV"].mode = 1
  /\ lat = 11 /\ lon = 12 /\ alt = 13 /\ timestamp = 100

\* C3: while update_gps processes a sentence that is malformed or lacks an
\* expected field, no step changes a snapshot field.
C3_MalformedLeavesSnapshot ==
  [][ ((Polling /\ Malformed(new_data)) \/ Malformed(new_data')) =>
        snapshot' = snapshot ]_vars

\* The updater loop has been left.
LoopExited == tpc \in {"t_exit", "t_done"}

\* C4: once stop() has returned on a threaded object, stopped is true and the
\* updater loop has exited, so it neither starts nor runs an update_gps call.
C4_StopMeansLoopExited ==
  (isThreaded /\ ret.op = "stop") => (stopped /\ LoopExited /\ upc = "idle")

\* C5: every call of stop() eventually returns, without raising.
C5_StopReturns ==
  (mpc = "stop_set") ~> (mpc = "ready" /\ ret.op = "stop" /\ ret.exc = NoExc)

\* The (lat, lon, alt) triples that come from one sentence: all unset, or the
\* three fields of one TPV sentence with a fix.
ConsistentTriples ==
  {<<None, None, None>>} \cup
  {<<Decoded(l).lat, Decoded(l).lon, Decoded(l).alt>> : l \in {x \in Lines : ValidFix(x)}}

\* C6: on a threaded object, the lat, lon and alt returned by one get_gps() call
\* come from one sentence, and a get_corrected_timestamp() call that read the
\* timestamp of a fix also reads that fix's arrival time.
C6_NoTornRead ==
  /\ (isThreaded /\ ret.op = "get_gps") =>
        <<ret.val[1], ret.val[2], ret.val[3]>> \in ConsistentTriples
  /\ (isThreaded /\ ret.op = "get_corrected_timestamp" /\ ret.ts # None) =>
        ret.last # None

\* C7: get_corrected_timestamp() returns the timestamp of the last fix plus the
\* seconds elapsed on the wall clock since that fix was cached.
C7_CorrectedIsElapsedSeconds ==
  (ret.op = "get_corrected_timestamp" /\ ret.exc = NoExc) =>
     ret.val = ret.ts + (ret.at - ret.last)

GctPcs == {"gct_ts", "gct_now", "gct_last"}

\* C8: a get_corrected_timestamp() call that finds timestamp unset returns no
\* timestamp but raises to its caller, and no step of the call changes the
\* cache or a snapshot field.
C8_UnsetRaises ==
  /\ []((ret.op = "get_corrected_timestamp" /\ ret.ts = None) =>
          (ret.exc # NoExc /\ ret.val = None))
  /\ [][ (mpc \in GctPcs /\ mpc' # mpc) =>
           (cache' = cache /\ snapshot' = snapshot) ]_vars

\* C8 witness: the call raised TypeError with no fix ever processed, although a
\* TPV sentence (without a fix) is in the cache.
C8_Witness ==
  /\ ret.op = "get_corrected_timestamp"
  /\ ret.exc = "TypeError"
  /\ ret.ts = None
  /\ timestamp = None /\ lastGpsReading = None
  /\ cacheExists /\ "TPV" \in DOMAIN gps_cache

\* C9: getSentence(which) returns, for every spelling of a class name, the
\* sentence cached under the upper-case name, and None if there is none.
C9_GetSentenceLooksUp ==
  [][ (mpc = "getSentence" /\ mpc' = "ready") =>
        /\ ret'.exc = NoExc
        /\ ret'.val = IF StrUpper(frame[1]) \in DOMAIN gps_cache
                        THEN gps_cache[StrUpper(frame[1])]
                        ELSE NoSentence ]_vars

\* C10: getSentences() returns exactly the classes that have a cached sentence.
C10_GetSentencesListsKeys ==
  [][ (mpc = "getSentences" /\ mpc' = "ready") =>
        /\ ret'.exc = NoExc
        /\ ret'.val = DOMAIN gps_cache ]_vars

\* The positions of the updater thread inside its while loop.
LoopPcs == {"t_loop", "t_update", "t_delay"}

\* C11: update_gps returns normally to the loop whatever the poll's outcome (the
\* thread goes on to the delay), the loop is left only at its test and only
\* with running false, and running is set to false only by stop().
C11_LoopEndsOnlyByStop ==
  /\ [](tpc # "t_crashed" /\ escaped = NoExc)
  /\ [][ /\ (tpc = "t_update" /\ PollEnds) => tpc' = "t_delay"
         /\ (tpc \in LoopPcs /\ tpc' \notin LoopPcs) =>
               (tpc = "t_loop" /\ tpc' = "t_exit" /\ ~running)
         /\ (running /\ ~running') => (mpc = "stop_set" /\ mpc' = "stop_wait") ]_vars

\* C11 witness: the loop has begun a further iteration after a poll that read a
\* line and failed (nothing was cached), on a connected daemon.
C11_Witness ==
  /\ tpc = "t_update" /\ upc = "next"
  /\ gpsd = "ok"
  /\ polls = 1
  /\ cacheExists /\ gps_cache = EmptyDict

\* C12: when update_gps returns from a line that decoded to a sentence with a
\* class, the cache holds that sentence, whole, under its class.
C12_CacheHoldsLatest ==
  [][ (PollEnds /\ IsJson(new_data) /\ Has(Decoded(new_data), "class")) =>
        /\ cacheExists
        /\ Decoded(new_data).class \in DOMAIN gps_cache
        /\ gps_cache[Decoded(new_data).class] = data ]_vars

\* C13: no step removes a key of the cache or the cache itself.
C13_CacheOnlyGrows ==
  [][ /\ cacheExists => cacheExists'
      /\ DOMAIN gps_cache \subseteq DOMAIN gps_cache' ]_vars

\* C13 witness: a threaded object whose cache holds two classes, after stop()
\* and an accessor call.
C13_Witness ==
  /\ isThreaded
  /\ DOMAIN gps_cache = {"TPV", "SKY"}
  /\ tpc = "t_done"
  /\ ret.op = "get_gps"

\* A SKY sentence that carries hdop.
SkyWithHdop(line) == IsSKY(line) /\ Has(Decoded(line), "hdop")

\* C14: while update_gps processes a SKY sentence carrying hdop, lat, lon, alt,
\* timestamp and lastGpsReading do not change, and when it returns hdop is the
\* sentence's value.
C14_SkySetsHdopOnly ==
  [][ (Polling /\ SkyWithHdop(new_data)) =>
        /\ <<lat, lon, alt, timestamp, lastGpsReading>>' =
             <<lat, lon, alt, timestamp, lastGpsReading>>
        /\ PollEnds => hdop = Decoded(new_data).hdop ]_vars

\* C15: after a failed gpsd setup the constructor goes on to start the loop and
\* create the cache; every poll ends in a caught exception and changes nothing,
\* so the cache stays empty, the snapshot unset and get_gps() returns four
\* unset values; the loop is left only with running false.
C15_SetupFailureDegrades ==
  /\ [](gpsd # "ok" =>
          /\ gps_cache = EmptyDict
          /\ snapshot = <<None, None, None, None, None, None>>
          /\ escaped = NoExc /\ tpc # "t_crashed"
          /\ upc = "return" => (caught # NoExc /\ new_data = NoLine)
          /\ ret.op = "get_gps" => ret.val = <<None, None, None, None>>)
  /\ [][ gpsd' # "ok" =>
           /\ mpc = "ctor_gpsd" => mpc' \in {"ctor_gpsd", "ctor_thread"}
           /\ (mpc = "ctor_thread" /\ mpc' # mpc) =>
                 (mpc' = "ctor_cache" /\ (isThreaded => tpc' = "t_run"))
           /\ (tpc \in LoopPcs /\ tpc' \notin LoopPcs) => ~running ]_vars

\* C15 witness: the setup failed, get_gps() has returned, and the loop is
\* ending a poll whose exception was caught.
C15_Witness ==
  /\ gpsd = "noconn"
  /\ ret.op = "get_gps"
  /\ tpc = "t_update" /\ upc = "return" /\ caught = "OSError"

\* The positions of the caller inside an accessor.
AccessorPcs == {"get_gps", "gct_ts", "gct_now", "gct_last", "getSentence", "getSentences"}

\* C16: no step of get_gps, get_corrected_timestamp, getSentence or getSentences
\* changes the cache or a snapshot field; a snapshot field or a cache entry
\* changes only in a step of update_gps.
C16_AccessorsWriteNothing ==
  [][ /\ ((mpc \in AccessorPcs \/ mpc' \in AccessorPcs) /\ <<mpc, frame, ret>>' # <<mpc, frame, ret>>) =>
            (cache' = cache /\ snapshot' = snapshot)
      /\ (snapshot' # snapshot \/ gps_cache' # gps_cache) =>
            (upc \notin {"idle", "return"} /\ <<mpc, frame, ret>>' = <<mpc, frame, ret>>) ]_vars

\* C16 witness: getSentences() has failed on an object whose cache and snapshot
\* hold a fix.
C16_Witness ==
  /\ ret.op = "getSentences" /\ ret.exc = "AttributeError"
  /\ "TPV" \in DOMAIN gps_cache
  /\ lat = 11 /\ timestamp = 100 /\ lastGpsReading # None

\* stop() has cleared running while the updater thread is inside its loop.
StopSignalled == ~running /\ tpc \in LoopPcs

\* C17: once the loop is running and stop() has set running to false, an
\* update_gps call in flight ends only by returning to the loop, having made
\* its cache and snapshot writes; running stays false, so the loop test (which
\* begins the call in the same step) begins no further update_gps call but
\* leaves the loop; and the thread's next statement sets stopped to true.
C17_StopLetsPollFinish ==
  /\ [](tpc = "t_done" => stopped)
  /\ [][ /\ StopSignalled =>
              /\ (upc # "idle" /\ upc' = "idle") => (upc = "return" /\ tpc' = "t_delay")
              /\ (PollEnds /\ ValidFix(new_data) /\ caught = NoExc) =>
                    /\ gps_cache["TPV"] = data
                    /\ <<lat, lon, alt, timestamp>> =
                         <<data.lat, data.lon, data.alt, data.time>>
                    /\ lastGpsReading # None
              /\ (tpc = "t_delay" /\ tpc' # tpc) => tpc' = "t_loop"
              /\ (tpc = "t_loop" /\ tpc' # tpc) => tpc' = "t_exit"
              /\ ~running'
         /\ (tpc = "t_exit" /\ tpc' # tpc) => (tpc' = "t_done" /\ stopped') ]_vars

\* The same, as progress under FairSpec: once stop() has cleared running with
\* the thread inside its loop, the loop ends and stopped becomes true.
StopSignalledLeadsToStopped == StopSignalled ~> (stopped /\ tpc = "t_done")

\* C17 witness: stop() is waiting, running is false, and the poll in flight is
\* between two of its snapshot writes.
C17_Witness ==
  /\ mpc = "stop_wait"
  /\ StopSignalled
  /\ tpc = "t_update" /\ upc = "w_lon"
  /\ lat = 11 /\ lon = None

\* C18: whenever no update_gps call is in progress, timestamp and
\* lastGpsReading are both unset or both set.
C18_TimestampPairedAtRest ==
  upc = "idle" => ((timestamp = None) <=> (lastGpsReading = None))

\* C18 witness: between polls, after a fix followed by a sentence that lacks a
\* field, both are set.
C18_Witness ==
  /\ upc = "idle"
  /\ timestamp = 100 /\ lastGpsReading # None
  /\ lat = 41
  /\ polls = 2

\* C19: if lat, lon, alt or timestamp is set the cache holds a TPV sentence, and
\* if hdop is set it holds a SKY sentence.
C19_SnapshotImpliesCached ==
  /\ (lat # None \/ lon # None \/ alt # None \/ timestamp # None) =>
        (cacheExists /\ "TPV" \in DOMAIN gps_cache)
  /\ hdop # None => (cacheExists /\ "SKY" \in DOMAIN gps_cache)

\* C19 witness: on a threaded object whose first poll ran before the cache was
\* created, a later poll has set hdop.
C19_Witness ==
  /\ isThreaded
  /\ hdop = 5
  /\ polls = 2
  /\ DOMAIN gps_cache = {"SKY"}

====
